---- MODULE Spec2Model ----
(***************************************************************************)
(* Model of speedtest/request.go: Server.PingTestContext,                  *)
(* Server.downloadTestContext and Server.uploadTestContext.                *)
(*                                                                         *)
(* One behaviour is one call on a Server descriptor.  Durations are whole  *)
(* numbers of clock quanta, Second quanta to the second; float64 values    *)
(* are exact fractions with the IEEE results of a division by zero         *)
(* (+Inf, -Inf, NaN) kept as values of their own.  The variable clock is   *)
(* time.Now() minus the last value the code stored in sTime, which is all  *)
(* the code ever uses of a time stamp.                                     *)
(***************************************************************************)
EXTENDS Integers, Sequences, FiniteSets, TLC

(* ------------------------------ bounds -------------------------------- *)

\* main-phase transfer tasks launched in one run
MaxLaunch == 4
\* the byte counter of one main phase, in MiB
MaxMiB == 1

(* clock readings the environment can produce, per phase (quanta) *)
WarmPoints == {2, 15, 16, 18, 40, 90, 160, 225, 360, 900}
MainPoints == {1, 100, 101}
PingPoints == {1, 30, 110, 250}
Durations == {0, 100}
Errs == {"e1", "e2"}
ServerTypes == {"Speedtest", "Librespeed"}

(* ----------------------------- constants ------------------------------ *)

\* time.Second, in clock quanta
Second == 10
MiB == 1024 * 1024
Chunks == {MiB \div 2, MiB}

dlSuffixes == <<350, 500, 750, 1000, 1500, 2000, 2500, 3000, 3500, 4000>>
ulSuffixes == <<100, 300, 500, 800, 1000, 1500, 2500, 3000, 3500, 4000>>

\* a[i] of a Go array (indexes from 0)
At(a, i) == a[i + 1]

(* ------------------------------ float64 ------------------------------- *)

Abs(x) == IF x < 0 THEN -x ELSE x
Sgn(x) == IF x < 0 THEN -1 ELSE IF x > 0 THEN 1 ELSE 0

RECURSIVE GCD(_, _)
GCD(a, b) == IF b = 0 THEN a ELSE GCD(b, a % b)

\* the float n/d (d > 0), in lowest terms
F(n, d) ==
    LET g == GCD(Abs(n), d)
    IN  [k |-> "fin", n |-> n \div g, d |-> d \div g]
FInt(i) == F(i, 1)
Inf(s) == [k |-> "inf", n |-> s, d |-> 0]
NaN == [k |-> "nan", n |-> 0, d |-> 0]
\* the value of a float variable the code has not assigned yet
Unset == [k |-> "unset", n |-> 0, d |-> 0]

FMul(a, b) ==
    IF a.k = "nan" \/ b.k = "nan" THEN NaN
    ELSE IF a.k = "inf" \/ b.k = "inf"
         THEN IF Sgn(a.n) * Sgn(b.n) = 0 THEN NaN ELSE Inf(Sgn(a.n) * Sgn(b.n))
         ELSE F(a.n * b.n, a.d * b.d)

FDiv(a, b) ==
    IF a.k = "nan" \/ b.k = "nan" THEN NaN
    ELSE IF a.k = "inf"
         THEN IF b.k = "inf" THEN NaN
              ELSE Inf(IF b.n < 0 THEN -a.n ELSE a.n)
         ELSE IF b.k = "inf" THEN F(0, 1)
              ELSE IF b.n = 0
                   THEN IF a.n = 0 THEN NaN ELSE Inf(Sgn(a.n))
                   ELSE F(a.n * b.d * Sgn(b.n), a.d * Abs(b.n))

\* a < b; false when either is NaN
FLess(a, b) ==
    IF a.k = "nan" \/ b.k = "nan" THEN FALSE
    ELSE IF a.k = "inf" THEN a.n < 0 /\ ~(b.k = "inf" /\ b.n < 0)
         ELSE IF b.k = "inf" THEN b.n > 0
              ELSE a.n * b.d < b.n * a.d

\* Duration.Seconds()
Seconds(t) == F(t, Second)

\* int(x) of a float: truncation; out of range (NaN, +-Inf) the result is
\* implementation-dependent: def = FALSE and v the sign of the value a
\* build can produce (amd64: the minimum; arm64: saturation, NaN to 0)
IntOk(v) == [def |-> TRUE, v |-> v]
IntConv(x) ==
    IF x.k = "fin"
    THEN {IntOk(IF x.n >= 0 THEN x.n \div x.d ELSE -((-x.n) \div x.d))}
    ELSE IF x.k = "nan" THEN {[def |-> FALSE, v |-> -1], [def |-> FALSE, v |-> 0]}
         ELSE {[def |-> FALSE, v |-> -1], [def |-> FALSE, v |-> x.n]}

compensationFactor == F(104, 100)

(* ------------------------------- state -------------------------------- *)

VARIABLES
    sType, Latency, DLSpeed, ULSpeed,   \* the Server descriptor
    hasProg, progBytes,                 \* s.Prog != nil; bytes passed to it
    op, pc, ret,                        \* the call, its position, its result
    savingMode, duration, ctxDone,      \* the call's arguments; ctx.Done()
    clock,                              \* time.Now() - sTime
    egErr, wuPending,                   \* errgroup: first error, warm-up tasks
    wuSpeed, streams, weight, skip, suffix,
    control, totalBytes, timedErr, nRun,
    pingI, pingL,
    pre, launched, anyOk, wuErrs, spans, writes,  \* history
    reported                            \* history: bytes the tasks reported

server == <<sType, Latency, DLSpeed, ULSpeed, hasProg>>
call == <<op, savingMode, duration>>
sel == <<wuSpeed, streams, weight, skip, suffix>>
main == <<control, totalBytes, timedErr, nRun, launched, anyOk, progBytes,
          reported>>
ping == <<pingI, pingL, spans>>
vars == <<sType, Latency, DLSpeed, ULSpeed, op, pc, ret, savingMode, duration,
          ctxDone, clock, egErr, wuPending, wuSpeed, streams, weight, skip,
          suffix, control, totalBytes, timedErr, nRun, pingI, pingL,
          pre, launched, anyOk, wuErrs, spans, writes, hasProg, progBytes,
          reported>>

\* a Server as constructed, and one an earlier ping and earlier tests left
PriorServers ==
    { [Latency |-> 0, DLSpeed |-> FInt(0), ULSpeed |-> FInt(0)],
      [Latency |-> 15, DLSpeed |-> FInt(7), ULSpeed |-> FInt(3)] }

\* s.Prog: nil on the Server as constructed; the Server of the earlier
\* tests was given a handler with SetProgressHandler
PriorProg(p) == p.Latency # 0

Init ==
    /\ sType \in ServerTypes
    /\ \E p \in PriorServers :
          /\ Latency = p.Latency
          /\ DLSpeed = p.DLSpeed
          /\ ULSpeed = p.ULSpeed
          /\ pre = p
          /\ hasProg = PriorProg(p)
    /\ progBytes = 0 /\ reported = 0
    /\ op = "none" /\ pc = "idle" /\ ret = "none"
    /\ savingMode = FALSE /\ duration = 0 /\ ctxDone = FALSE
    /\ clock = 0
    /\ egErr = "nil" /\ wuPending = 0
    /\ wuSpeed = Unset /\ streams = 0 /\ weight = 0 /\ skip = FALSE
    /\ suffix = IntOk(0)
    /\ control = 0 /\ totalBytes = 0 /\ timedErr = FALSE /\ nRun = 0
    /\ pingI = 0 /\ pingL = 0
    /\ launched = 0 /\ anyOk = FALSE /\ wuErrs = {} /\ spans = <<>>
    /\ writes = 0

MainPcs == {"acquire", "check", "join"}

(* ------------------------------ the clock ----------------------------- *)

\* time passes while the call waits: the next reading of time.Now() is t
Tick(t) ==
    /\ \/ pc = "warmup" /\ t \in WarmPoints
       \/ pc \in MainPcs /\ t \in MainPoints
       \/ pc = "ping" /\ t \in PingPoints
    /\ t > clock
    /\ clock' = t
    /\ UNCHANGED <<server, call, sel, main, ping, pc, ret, ctxDone, egErr,
                   wuPending, pre, wuErrs, writes>>

(* ------------------------------ PingTest ------------------------------ *)

\* l := time.Second * 10
pingInitial == Second * 10

\* if fTime.Sub(sTime) < l { l = fTime.Sub(sTime) }
PingMin(l, span) == IF span < l THEN span ELSE l

\* time.Duration(int64(l.Nanoseconds() / 2))
PingHalf(l) == l \div 2

PingTest ==
    /\ pc = "idle"
    /\ op' = "ping" /\ pc' = "ping"
    /\ pingL' = pingInitial /\ pingI' = 0
    /\ clock' = 0
    /\ UNCHANGED <<server, savingMode, duration, sel, main, spans, ret,
                   ctxDone, egErr, wuPending, pre, wuErrs, writes>>

\* http.NewRequestWithContext or s.Doer.Do returns an error
PingFail(e) ==
    /\ pc = "ping"
    /\ ret' = e /\ pc' = "done"
    /\ UNCHANGED <<server, call, sel, main, ping, clock, ctxDone, egErr,
                   wuPending, pre, wuErrs, writes>>

\* the response arrives: one loop iteration ends, the next one starts
PingReply ==
    /\ pc = "ping"
    /\ LET l2 == PingMin(pingL, clock)
       IN  /\ spans' = Append(spans, clock)
           /\ pingL' = l2
           /\ pingI' = pingI + 1
           /\ IF pingI + 1 < 3
              THEN /\ clock' = 0
                   /\ UNCHANGED <<Latency, ret, pc>>
              ELSE /\ Latency' = PingHalf(l2)
                   /\ ret' = "nil" /\ pc' = "done"
                   /\ UNCHANGED clock
    /\ UNCHANGED <<hasProg, sType, DLSpeed, ULSpeed, call, sel, main, ctxDone, egErr,
                   wuPending, pre, wuErrs, writes>>

(* --------------------- warm-up and stream selection ------------------- *)

suffixToMB(serverType, sfx) ==
    IF serverType = "Librespeed"
    THEN FInt(sfx)
    ELSE FDiv(FDiv(FMul(FMul(FInt(sfx), FInt(sfx)), FInt(2)), FInt(1000)),
              FInt(1000))

\* eg.Wait(): the first non-nil error a task of the group returned
EgWaitC2Mutant(err) == "nil"
EgWait(err) == err

\* errgroup's errOnce: only the first error is kept
EgRecord(err, e) == IF err = "nil" THEN e ELSE err

\* timeSpent of the download warm-up, in quanta: the span less the server's
\* latency, or the raw span when that is negative
DlTimeSpent(clk, lat) == IF clk - lat < 0 THEN clk ELSE clk - lat

\* wuSpeed := float64(streams) * suffixToMB(s.Type, suffix) * 8 / timeSpent
DlWarmUpSpeed(n, serverType, sfx, ts) ==
    FDiv(FMul(FMul(FInt(n), suffixToMB(serverType, sfx)), FInt(8)), Seconds(ts))

\* wuSpeed := 2 * 1.0 * 8 / fTime.Sub(sTime.Add(s.Latency)).Seconds()
UlWarmUpSpeed(clk, lat) ==
    FDiv(FMul(FMul(FInt(2), FInt(1)), FInt(8)), Seconds(clk - lat))

Sel(st, w, sk) == [streams |-> st, weight |-> w, skip |-> sk]

\* 50.0 <= wuSpeed for 50.0 < wuSpeed
DlSelectC7Mutant(sm, wu, st) ==
    IF sm THEN Sel(6, 3, FALSE)
    ELSE IF ~FLess(wu, FInt(50)) /\ wu.k # "nan" THEN Sel(32, 6, FALSE)
    ELSE IF FLess(FInt(10), wu) THEN Sel(16, 4, FALSE)
    ELSE IF FLess(FInt(4), wu) THEN Sel(8, 4, FALSE)
    ELSE IF FLess(F(25, 10), wu) THEN Sel(4, 4, FALSE)
    ELSE Sel(st, 0, TRUE)

\* the saving-mode branch sets the weight and leaves streams at 10
DlSelectC9Mutant(sm, wu, st) ==
    IF sm THEN Sel(st, 3, FALSE)
    ELSE IF FLess(FInt(50), wu) THEN Sel(32, 6, FALSE)
    ELSE IF FLess(FInt(10), wu) THEN Sel(16, 4, FALSE)
    ELSE IF FLess(FInt(4), wu) THEN Sel(8, 4, FALSE)
    ELSE IF FLess(F(25, 10), wu) THEN Sel(4, 4, FALSE)
    ELSE Sel(st, 0, TRUE)

\* the last threshold is 0.25 for 2.5
DlSelectC4Mutant(sm, wu, st) ==
    IF sm THEN Sel(6, 3, FALSE)
    ELSE IF FLess(FInt(50), wu) THEN Sel(32, 6, FALSE)
    ELSE IF FLess(FInt(10), wu) THEN Sel(16, 4, FALSE)
    ELSE IF FLess(FInt(4), wu) THEN Sel(8, 4, FALSE)
    ELSE IF FLess(F(25, 100), wu) THEN Sel(4, 4, FALSE)
    ELSE Sel(st, 0, TRUE)

\* "Decide streams by warm up speed" of the download test; st is the
\* stream count of the warm-up, which the last branch leaves in place
DlSelect(sm, wu, st) ==
    IF sm THEN Sel(6, 3, FALSE)
    ELSE IF FLess(FInt(50), wu) THEN Sel(32, 6, FALSE)
    ELSE IF FLess(FInt(10), wu) THEN Sel(16, 4, FALSE)
    ELSE IF FLess(FInt(4), wu) THEN Sel(8, 4, FALSE)
    ELSE IF FLess(F(25, 10), wu) THEN Sel(4, 4, FALSE)
    ELSE Sel(st, 0, TRUE)

\* savingMode is tested after the speed buckets instead of before them
UlSelectC8Mutant(sm, wu, st) ==
    IF FLess(FInt(50), wu) THEN Sel(40, 9, FALSE)
    ELSE IF FLess(FInt(10), wu) THEN Sel(16, 9, FALSE)
    ELSE IF FLess(FInt(4), wu) THEN Sel(8, 9, FALSE)
    ELSE IF FLess(F(25, 10), wu) THEN Sel(4, 5, FALSE)
    ELSE IF sm THEN Sel(1, 7, FALSE)
    ELSE Sel(st, 0, TRUE)

\* "Decide streams by warm up speed" of the upload test
UlSelect(sm, wu, st) ==
    IF sm THEN Sel(1, 7, FALSE)
    ELSE IF FLess(FInt(50), wu) THEN Sel(40, 9, FALSE)
    ELSE IF FLess(FInt(10), wu) THEN Sel(16, 9, FALSE)
    ELSE IF FLess(FInt(4), wu) THEN Sel(8, 9, FALSE)
    ELSE IF FLess(F(25, 10), wu) THEN Sel(4, 5, FALSE)
    ELSE Sel(st, 0, TRUE)

\* the payload size of the main phase of a download: the values the
\* assignment to suffix can produce
DlSuffix(serverType, wu, st, w, dur) ==
    IF serverType = "Librespeed"
    THEN IntConv(FMul(FDiv(FDiv(wu, FInt(8)), FInt(st)), Seconds(dur)))
    ELSE {IntOk(At(dlSuffixes, w))}

\* the value of the speed field once the streams are decided: the local
\* dlSpeed (ulSpeed) holds the warm-up speed, and it is stored in the
\* field only when the main phase is skipped
PublishC10Mutant(field, wu, sk) == wu
Publish(field, wu, sk) == IF sk THEN wu ELSE field

\* context.WithDeadline(ctx, eTime): done at once when the parent is or
\* when the deadline is not in the future
WithDeadlineErr(parentDone, dur) == parentDone \/ dur <= 0

\* eTime := sTime.Add(duration), as a reading of clock
eTime == duration

\* capacity of the channel control
ControlCapC1Mutant(st) == st + 1
\* make(chan int): a channel without a buffer
ControlCapC17Mutant(st) == 0
ControlCap(st) == st

\* float64(totalBytes.Load()/1024/1024) * compensationFactor * 8 /
\* fTime.Sub(sTime).Seconds()
\* (the product and the span are values before the division uses them)
MainSpeed(tb, clk) ==
    CHOOSE v \in {FDiv(y, t) :
                    y \in {FMul(x, FInt(8)) :
                             x \in {FMul(FInt((tb \div 1024) \div 1024),
                                          compensationFactor)}},
                    t \in {Seconds(clk)}} : TRUE

DownloadTest(sm, dur) ==
    /\ pc = "idle"
    /\ op' = "dl" /\ savingMode' = sm /\ duration' = dur
    /\ egErr' = "nil"
    /\ suffix' = IF sType = "Librespeed" THEN IntOk(1)
                 ELSE IntOk(At(dlSuffixes, 2))
    /\ streams' = 10
    /\ clock' = 0
    /\ wuPending' = 10
    /\ pc' = "warmup"
    /\ UNCHANGED <<server, wuSpeed, weight, skip, main, ping, ret, ctxDone,
                   pre, wuErrs, writes>>

UploadTest(sm, dur) ==
    /\ pc = "idle"
    /\ op' = "ul" /\ savingMode' = sm /\ duration' = dur
    /\ egErr' = "nil"
    /\ suffix' = IntOk(At(dlSuffixes, 4))
    /\ streams' = 2
    /\ clock' = 0
    /\ wuPending' = 2
    /\ pc' = "warmup"
    /\ UNCHANGED <<server, wuSpeed, weight, skip, main, ping, ret, ctxDone,
                   pre, wuErrs, writes>>

\* one warm-up task returns e ("nil" or an error) to the errgroup
WarmUpTask(e) ==
    /\ pc = "warmup" /\ wuPending > 0
    /\ wuPending' = wuPending - 1
    /\ egErr' = EgRecord(egErr, e)
    /\ wuErrs' = IF e = "nil" THEN wuErrs ELSE wuErrs \cup {e}
    /\ UNCHANGED <<server, call, sel, main, ping, pc, ret, ctxDone, clock,
                   pre, writes>>

\* the caller's context is cancelled; timedCtx, once made, is its child
CtxCancel ==
    /\ pc \in {"warmup"} \cup MainPcs
    /\ ~ctxDone
    /\ ctxDone' = TRUE
    /\ timedErr' = IF pc \in MainPcs THEN TRUE ELSE timedErr
    /\ UNCHANGED <<server, call, sel, control, totalBytes, nRun, launched,
                   anyOk, ping, pc, ret, clock, egErr, wuPending, pre,
                   wuErrs, writes,
                   progBytes, reported>>

\* the main phase starts: control, totalBytes, sTime, eTime, timedCtx
StartMain ==
    /\ control' = 0 /\ totalBytes' = 0
    /\ clock' = 0
    /\ timedErr' = WithDeadlineErr(ctxDone, duration)
    /\ pc' = "acquire"
    /\ UNCHANGED <<ret, writes>>

\* eg.Wait() of the download warm-up returns; up to the main loop, or to
\* the return when the warm-up failed or the main phase is skipped
DlWarmUpDone ==
    /\ pc = "warmup" /\ op = "dl" /\ wuPending = 0
    /\ IF EgWait(egErr) # "nil"
       THEN /\ ret' = EgWait(egErr) /\ pc' = "done"
            /\ UNCHANGED <<DLSpeed, sel, control, totalBytes, timedErr,
                           clock, writes>>
       ELSE LET wu == DlWarmUpSpeed(streams, sType, suffix.v,
                                    DlTimeSpent(clock, Latency))
                s == DlSelect(savingMode, wu, streams)
            IN  /\ wuSpeed' = wu
                /\ streams' = s.streams /\ weight' = s.weight
                /\ skip' = s.skip
                /\ suffix' \in DlSuffix(sType, wu, s.streams, s.weight,
                                        duration)
                /\ DLSpeed' = Publish(DLSpeed, wu, s.skip)
                /\ IF s.skip
                   THEN /\ ret' = "nil" /\ pc' = "done"
                        /\ writes' = writes + 1
                        /\ UNCHANGED <<control, totalBytes, timedErr, clock>>
                   ELSE StartMain
    /\ UNCHANGED <<hasProg, sType, Latency, ULSpeed, call, nRun, launched, anyOk,
                   ping, ctxDone, egErr, wuPending, pre, wuErrs, progBytes,
                   reported>>

UlWarmUpDone ==
    /\ pc = "warmup" /\ op = "ul" /\ wuPending = 0
    /\ IF EgWait(egErr) # "nil"
       THEN /\ ret' = EgWait(egErr) /\ pc' = "done"
            /\ UNCHANGED <<ULSpeed, sel, control, totalBytes, timedErr,
                           clock, writes>>
       ELSE LET wu == UlWarmUpSpeed(clock, Latency)
                s == UlSelect(savingMode, wu, streams)
            IN  /\ wuSpeed' = wu
                /\ streams' = s.streams /\ weight' = s.weight
                /\ skip' = s.skip
                /\ suffix' = IntOk(At(ulSuffixes, s.weight))
                /\ ULSpeed' = Publish(ULSpeed, wu, s.skip)
                /\ IF s.skip
                   THEN /\ ret' = "nil" /\ pc' = "done"
                        /\ writes' = writes + 1
                        /\ UNCHANGED <<control, totalBytes, timedErr, clock>>
                   ELSE StartMain
    /\ UNCHANGED <<hasProg, sType, Latency, DLSpeed, call, nRun, launched, anyOk,
                   ping, ctxDone, egErr, wuPending, pre, wuErrs, progBytes,
                   reported>>

(* ----------------------------- main phase ----------------------------- *)

\* control <- 747
Acquire ==
    /\ pc = "acquire"
    /\ control < ControlCap(streams)
    /\ control' = control + 1
    /\ pc' = "check"
    /\ UNCHANGED <<server, call, sel, totalBytes, timedErr, nRun, launched,
                   anyOk, ping, ret, ctxDone, clock, egErr, wuPending, pre,
                   wuErrs, writes,
                   progBytes, reported>>

\* time.Now().After(eTime) || timedCtx.Err() != nil
ExpiredC12Mutant == clock > eTime
Expired == clock > eTime \/ timedErr

\* cancel(): timedCtx.Err() after it, te being timedCtx.Err() before
CancelC11Mutant(te) == te
Cancel(te) == TRUE

\* cancel(); break
StopAdmission ==
    /\ pc = "check"
    /\ Expired
    /\ timedErr' = Cancel(timedErr)
    /\ pc' = "join"
    /\ UNCHANGED <<server, call, sel, control, totalBytes, nRun, launched,
                   anyOk, ping, ret, ctxDone, clock, egErr, wuPending, pre,
                   wuErrs, writes,
                   progBytes, reported>>

\* eg.Go(...): one more transfer task runs
Launch ==
    /\ pc = "check"
    /\ ~Expired
    /\ launched < MaxLaunch
    /\ nRun' = nRun + 1
    /\ launched' = launched + 1
    /\ pc' = "acquire"
    /\ UNCHANGED <<server, call, sel, control, totalBytes, timedErr, anyOk,
                   ping, ret, ctxDone, clock, egErr, wuPending, pre, wuErrs,
                   writes,
                   progBytes, reported>>

\* totalBytes.Add(int64(nbytes))
AtomicAddC16Mutant(cur, n) == n
AtomicAdd(cur, n) == cur + n

\* if s.Prog != nil { s.Prog.Update(nbytes) }: the bytes the sink has got
SinkUpdateC20Mutant(has, got, n) == IF has THEN got + 1 ELSE got
SinkUpdate(has, got, n) == IF has THEN got + n ELSE got

\* a running task reads or writes a chunk: byteTracker(n)
TaskProgress(n) ==
    /\ pc \in MainPcs /\ nRun > 0
    /\ reported + n <= MaxMiB * MiB
    /\ totalBytes' = AtomicAdd(totalBytes, n)
    /\ progBytes' = SinkUpdate(hasProg, progBytes, n)
    /\ reported' = reported + n
    /\ UNCHANGED <<server, call, sel, control, timedErr, nRun, launched,
                   anyOk, ping, pc, ret, ctxDone, clock, egErr, wuPending,
                   pre, wuErrs, writes>>

\* <-control of a task whose request returned e
ReleaseC15Mutant(c, e) == IF e = "nil" THEN c - 1 ELSE c
Release(c, e) == c - 1

\* a running task's request returns e; the task takes a token out of
\* control and returns e to the errgroup
TaskDone(e) ==
    /\ pc \in MainPcs /\ nRun > 0
    /\ nRun' = nRun - 1
    /\ control' = Release(control, e)
    /\ egErr' = EgRecord(egErr, e)
    /\ anyOk' = (anyOk \/ e = "nil")
    /\ UNCHANGED <<server, call, sel, totalBytes, timedErr, launched, ping,
                   pc, ret, ctxDone, clock, wuPending, pre, wuErrs, writes,
                   progBytes, reported>>

\* the timer of timedCtx fires at the deadline
TimerFire ==
    /\ pc \in MainPcs
    /\ ~timedErr
    /\ clock >= eTime
    /\ timedErr' = TRUE
    /\ UNCHANGED <<server, call, sel, control, totalBytes, nRun, launched,
                   anyOk, ping, pc, ret, ctxDone, clock, egErr, wuPending,
                   pre, wuErrs, writes,
                   progBytes, reported>>

\* eg.Wait() returns once none of the n tasks it waits for is left
EgJoinedC13Mutant(n) == TRUE
EgJoined(n) == n = 0

\* eg.Wait() returns (its error is dropped); the speed is computed and
\* stored, and the call returns nil
DlJoin ==
    /\ pc = "join" /\ op = "dl" /\ EgJoined(nRun)
    /\ DLSpeed' = MainSpeed(totalBytes, clock)
    /\ writes' = writes + 1
    /\ ret' = "nil" /\ pc' = "done"
    /\ UNCHANGED <<hasProg, sType, Latency, ULSpeed, call, sel, main, ping, ctxDone,
                   clock, egErr, wuPending, pre, wuErrs>>

UlJoin ==
    /\ pc = "join" /\ op = "ul" /\ EgJoined(nRun)
    /\ ULSpeed' = MainSpeed(totalBytes, clock)
    /\ writes' = writes + 1
    /\ ret' = "nil" /\ pc' = "done"
    /\ UNCHANGED <<hasProg, sType, Latency, DLSpeed, call, sel, main, ping, ctxDone,
                   clock, egErr, wuPending, pre, wuErrs>>

(* --------------------------- specification ---------------------------- *)

AllPoints == WarmPoints \cup MainPoints \cup PingPoints

Next ==
    \/ PingTest
    \/ \E e \in Errs : PingFail(e)
    \/ PingReply
    \/ \E sm \in BOOLEAN, dur \in Durations : DownloadTest(sm, dur)
    \/ \E sm \in BOOLEAN, dur \in Durations : UploadTest(sm, dur)
    \/ \E e \in Errs \cup {"nil"} : WarmUpTask(e)
    \/ DlWarmUpDone
    \/ UlWarmUpDone
    \/ CtxCancel
    \/ Acquire
    \/ StopAdmission
    \/ Launch
    \/ \E n \in Chunks : TaskProgress(n)
    \/ \E e \in {"nil", "e1"} : TaskDone(e)
    \/ TimerFire
    \/ DlJoin
    \/ UlJoin
    \/ \E t \in AllPoints : Tick(t)

Spec == Init /\ [][Next]_vars

\* a step of the main phase: of the admission loop, of a running task, of
\* the timer of timedCtx, of eg.Wait() or of the clock
MainStep ==
    \/ \E t \in MainPoints : Tick(t)
    \/ \E e \in {"nil", "e1"} : TaskDone(e)
    \/ TimerFire
    \/ Acquire \/ StopAdmission \/ Launch
    \/ DlJoin \/ UlJoin

\* the goroutines of the call and of its tasks are scheduled, the timer of
\* timedCtx fires, time.Now() advances and every request returns: the main
\* phase does not stop while one of its steps is possible
Fairness == WF_vars(MainStep)

LiveSpec == Init /\ [][Next]_vars /\ Fairness

(* ------------------------------- claims ------------------------------- *)

\* the speed field of the running test's direction
Field == IF op = "dl" THEN DLSpeed ELSE ULSpeed
Testing == op \in {"dl", "ul"}
Selected == Testing /\ wuSpeed # Unset
TooSlow(w) == ~FLess(F(25, 10), w)
\* a warm-up speed that is a positive number
Plain(w) == w.k = "fin" /\ w.n > 0

\* C1: during the main phase of a download or upload test the number of
\* transfer tasks launched and not yet completed is at most the selected
\* stream count, the capacity of the token pool.
C1_AtMostKInFlight ==
    pc \in MainPcs => nRun <= streams /\ control <= streams

\* the pool of the 4-stream bucket is saturated and the loop waits
C1_Witness ==
    pc = "acquire" /\ streams = 4 /\ nRun = 4 /\ control = 4

\* C2: a warm-up error is returned by the call, no main-phase task is
\* launched and the speed fields stay as they were before the call; a
\* failed ping attempt returns its error and leaves Latency as it was.
C2_FatalErrorLeavesField ==
    /\ (Testing /\ wuErrs # {}) =>
          /\ pc \in {"warmup", "done"}
          /\ launched = 0
          /\ DLSpeed = pre.DLSpeed /\ ULSpeed = pre.ULSpeed
          /\ pc = "done" => ret \in wuErrs
    /\ (op = "ping" /\ pc = "done" /\ ret # "nil") =>
          ret \in Errs /\ Latency = pre.Latency

\* two warm-up tasks of a download failed, with different errors
C2_Witness ==
    /\ op = "dl" /\ pc = "done" /\ ret = "e2"
    /\ wuErrs = {"e1", "e2"}
    /\ DLSpeed = FInt(7)

\* C3: when every transfer task launched in a main phase failed, the call
\* returns an error instead of nil (stated for the runs with a positive
\* warm-up speed and a positive elapsed time of the main phase).
C3_AllFailedIsAnError ==
    (Selected /\ Plain(wuSpeed) /\ pc = "done" /\ clock > 0
        /\ launched > 0 /\ ~anyOk) => ret # "nil"

\* C4 as written: a warm-up speed not above 2.5 Mbps skips the main phase
\* and is the speed written to the field (stated for the positive speeds).
C4_TooSlowSkips ==
    (Selected /\ TooSlow(wuSpeed) /\ Plain(wuSpeed)) =>
        /\ launched = 0 /\ pc = "done" /\ ret = "nil"
        /\ Field = wuSpeed

\* C4, amended: the same, for a test that is not in saving mode.
C4_TooSlowSkipsUnlessSaving ==
    (Selected /\ TooSlow(wuSpeed) /\ ~savingMode) =>
        /\ launched = 0 /\ pc = "done" /\ ret = "nil"
        /\ Field = wuSpeed

\* a download whose warm-up measured 1.0 Mbps
C4_Witness ==
    /\ op = "dl" /\ ~savingMode /\ wuSpeed = FInt(1)
    /\ pc = "done" /\ DLSpeed = FInt(1) /\ launched = 0

RECURSIVE MinOf(_)
MinOf(q) ==
    IF Len(q) = 1 THEN q[1]
    ELSE LET m == MinOf(Tail(q)) IN IF q[1] < m THEN q[1] ELSE m

\* C5: after three successful round trips of positive durations Latency
\* is half the smallest of them, and it is not negative.
C5_LatencyIsHalfMin ==
    (op = "ping" /\ pc = "done" /\ ret = "nil"
        /\ \A i \in 1..Len(spans) : spans[i] > 0) =>
        Latency = MinOf(spans) \div 2 /\ Latency >= 0

\* C6: a main phase that ends with no task admitted and no time elapsed
\* writes 0 or the warm-up estimate (stated for the positive warm-up
\* speeds).
C6_ZeroElapsedGuarded ==
    (Selected /\ Plain(wuSpeed) /\ ~skip /\ pc = "done" /\ launched = 0
        /\ clock = 0) =>
        Field \in {FInt(0), wuSpeed}

\* the buckets of the warm-up speed, by strict descending comparisons
Bucket(w) ==
    IF FLess(FInt(50), w) THEN 1
    ELSE IF FLess(FInt(10), w) THEN 2
    ELSE IF FLess(FInt(4), w) THEN 3
    ELSE IF FLess(F(25, 10), w) THEN 4
    ELSE 5

\* the fixed tables: <<streams, weight>> per bucket that runs the main phase
DlTable == << <<32, 6>>, <<16, 4>>, <<8, 4>>, <<4, 4>> >>
UlTable == << <<40, 9>>, <<16, 9>>, <<8, 9>>, <<4, 5>> >>

Budget(dir, sm, b) ==
    IF sm THEN IF dir = "dl" THEN Sel(6, 3, FALSE) ELSE Sel(1, 7, FALSE)
    ELSE IF b = 5 THEN Sel(IF dir = "dl" THEN 10 ELSE 2, 0, TRUE)
    ELSE LET t == IF dir = "dl" THEN DlTable[b] ELSE UlTable[b]
         IN  Sel(t[1], t[2], FALSE)

\* C7: stream count and weight are a function of the bucket, the saving
\* flag and the direction; the table payload sizes follow the weight; a
\* download at 60 Mbps, not saving, has 32 streams, weight 6, and on a
\* speedtest.net server the payload size 2500.
C7_SelectionByBucket ==
    Selected =>
        /\ Sel(streams, weight, skip) = Budget(op, savingMode, Bucket(wuSpeed))
        /\ (op = "dl" /\ sType = "Speedtest") =>
               suffix = IntOk(At(dlSuffixes, weight))
        /\ op = "ul" => suffix = IntOk(At(ulSuffixes, weight))
        /\ (op = "dl" /\ ~savingMode /\ wuSpeed = FInt(60)) =>
               /\ streams = 32 /\ weight = 6
               /\ sType = "Speedtest" => suffix = IntOk(2500)

C7_Witness ==
    /\ op = "dl" /\ ~savingMode /\ sType = "Speedtest"
    /\ wuSpeed = FInt(60)
    /\ streams = 32 /\ weight = 6 /\ suffix = IntOk(2500)

\* C8: an upload in saving mode has 1 stream and weight 7 (payload
\* ulSuffixes[7]) whatever the warm-up speed.
C8_UploadSaving ==
    (Selected /\ op = "ul" /\ savingMode) =>
        /\ streams = 1 /\ weight = 7 /\ ~skip
        /\ suffix = IntOk(3000)

\* a saving upload with a too slow warm-up runs its single stream
C8_Witness ==
    /\ op = "ul" /\ savingMode /\ Selected /\ TooSlow(wuSpeed)
    /\ streams = 1 /\ nRun = 1

\* warm-up speeds (Mbps), one or more in every bucket
ProbeSpeeds ==
    {FInt(1), F(25, 10), FInt(3), FInt(4), FInt(5), FInt(10), FInt(20),
     FInt(50), FInt(60)}

SelectOf(dir, sm, w) ==
    IF dir = "dl" THEN DlSelect(sm, w, 10) ELSE UlSelect(sm, w, 2)

\* C9 as written: the stream count of a test in saving mode is no greater
\* than that of any bucket of its direction that runs the main phase
\* without saving mode (stated for the runs with a positive warm-up speed).
C9_SavingIsLowest ==
    (Selected /\ savingMode /\ Plain(wuSpeed)) =>
        \A w \in ProbeSpeeds :
            LET r == SelectOf(op, FALSE, w)
            IN  ~r.skip => streams <= r.streams

\* C9, amended: for an upload as written; for a download, no greater than
\* that of any such bucket above 4 Mbps.
C9_SavingIsLowestAbove4 ==
    (Selected /\ savingMode) =>
        \A w \in ProbeSpeeds :
            LET r == SelectOf(op, FALSE, w)
            IN  (~r.skip /\ (op = "ul" \/ FLess(FInt(4), w))) =>
                    streams <= r.streams

\* a saving download runs its main phase with 6 streams
C9_Witness ==
    /\ op = "dl" /\ savingMode /\ Selected
    /\ streams = 6 /\ pc = "check" /\ nRun = 4

\* C10: a run of a test writes its own speed field at most once, in the
\* step that returns nil, and it changes neither the other speed field
\* nor Latency.
C10_WrittenOnceAtEnd ==
    [][ /\ DLSpeed' # DLSpeed =>
              op = "dl" /\ pc # "done" /\ pc' = "done" /\ ret' = "nil"
        /\ ULSpeed' # ULSpeed =>
              op = "ul" /\ pc # "done" /\ pc' = "done" /\ ret' = "nil"
        /\ Testing => Latency' = Latency
        /\ writes' <= 1
        /\ writes' # writes => pc' = "done" ]_vars

\* a download that ran its main phase wrote DLSpeed, and only it
C10_Witness ==
    /\ op = "dl" /\ pc = "done" /\ ret = "nil" /\ ~skip /\ launched > 0
    /\ writes = 1
    /\ DLSpeed # pre.DLSpeed
    /\ ULSpeed = pre.ULSpeed /\ Latency = pre.Latency

\* the main phase of the running test is or was run
MainRan == Selected /\ ~skip

\* C11 as written: while the caller's context is live, no in-flight task
\* of the main phase has its context cancelled, neither by the deadline
\* nor by the exit of the admission loop (stated for the positive
\* warm-up speeds).
C11_NoCancelInFlight ==
    (MainRan /\ Plain(wuSpeed) /\ pc \in MainPcs /\ nRun > 0 /\ ~ctxDone) =>
        ~timedErr

\* C11, amended: once the admission loop has exited, the context the
\* in-flight tasks run under is cancelled.
C11_CancelledAfterLoop ==
    (MainRan /\ pc \in {"join", "done"}) => timedErr

\* the loop exited past the deadline and a task is still in flight
C11_Witness ==
    /\ pc = "join" /\ nRun > 0 /\ ~ctxDone
    /\ clock > eTime /\ timedErr

\* C12: a task is launched only by the step that follows the acquisition
\* of a token and finds the deadline not passed and the signal not fired;
\* after the loop has exited no task is launched.
C12_CheckBeforeLaunch ==
    [][ /\ launched' # launched =>
              /\ pc = "check" /\ control >= 1
              /\ ~(clock > duration) /\ ~timedErr
              /\ launched' = launched + 1
        /\ pc \in {"join", "done"} => launched' = launched ]_vars

\* two tasks were launched before the deadline stopped the loop
C12_Witness ==
    pc = "join" /\ launched = 2 /\ ~ctxDone /\ clock > eTime

\* C13: the counter and the finish time are read, and the speed stored,
\* only when no task launched in the phase is left running.
C13_JoinBarrier ==
    (MainRan /\ pc = "done") => nRun = 0

\* a main phase with a failed and a successful task was joined
C13_Witness ==
    /\ MainRan /\ pc = "done" /\ launched >= 2
    /\ anyOk /\ egErr # "nil" /\ totalBytes > 0

\* C14: the warm-up speed of a download or upload test is not negative.
C14_WarmUpSpeedNotNegative ==
    Selected => ~FLess(wuSpeed, FInt(0))

\* C15: the tokens in control are those of the in-flight tasks, and one
\* more while the loop holds the token it acquired last.
C15_TokensMatchTasks ==
    MainRan =>
        /\ control = nRun + (IF pc = "acquire" THEN 0 ELSE 1)
        /\ control <= streams

\* two tasks failed, and the loop acquired a token again
C15_Witness ==
    /\ pc = "check" /\ launched = 2 /\ ~anyOk /\ egErr # "nil"
    /\ nRun = 0 /\ control = 1

\* C16: the counter holds the sum of the byte counts the tasks reported,
\* and the speed stored is computed from that sum.
C16_NoLostUpdate ==
    MainRan =>
        /\ totalBytes = reported
        /\ pc = "done" => Field = MainSpeed(reported, clock)

\* two tasks reported 1 MiB between them
C16_Witness ==
    /\ MainRan /\ pc = "done" /\ launched >= 2
    /\ reported = MiB /\ clock > 0

\* C18: the payload size of the main phase of a Librespeed download is at
\* least 1 for a warm-up speed above 2.5 Mbps and a positive duration.
C18_PayloadAtLeastOne ==
    (MainRan /\ op = "dl" /\ sType = "Librespeed" /\ Plain(wuSpeed)
        /\ FLess(F(25, 10), wuSpeed) /\ duration > 0) =>
        suffix.def /\ suffix.v >= 1

\* C19: a main phase that counted bytes over a positive elapsed time
\* stores a positive speed (stated for the positive warm-up speeds).
C19_PositiveSpeed ==
    (MainRan /\ Plain(wuSpeed) /\ pc = "done" /\ totalBytes > 0
        /\ clock > 0) =>
        FLess(FInt(0), Field)

\* C20: the sink of a Server that has one is passed every byte count added
\* to the counter of the main phase, and nothing during the warm-up.
C20_SinkGetsEveryIncrement ==
    /\ hasProg => progBytes = (IF MainRan THEN totalBytes ELSE 0)
    /\ ~hasProg => progBytes = 0

\* a main phase of a Server with a sink counted 1 MiB
C20_Witness ==
    /\ hasProg /\ MainRan /\ pc = "done"
    /\ totalBytes = MiB /\ progBytes = MiB

\* C17: under Fairness, a test that entered its main phase leaves the
\* admission loop, joins its tasks, stores the speed and returns nil.
C17_Terminates ==
    (MainRan /\ pc \in MainPcs) ~>
        (pc = "done" /\ ret = "nil" /\ writes = 1)

\* the pool is saturated, the deadline has passed and the loop waits
C17_Witness ==
    /\ MainRan /\ Plain(wuSpeed)
    /\ pc = "acquire" /\ control = streams /\ nRun = streams
    /\ clock > eTime
====
